---- MODULE Spec2Model ----
(***************************************************************************)
(* ezslurm: the Job variants (ForegroundJob, BackgroundJob, SlurmJob,      *)
(* SequentialJob) and the JobManager polling loop of src/ezslurm/job.py.   *)
(*                                                                         *)
(* A text is modelled as the sequence of its space-separated tokens, so    *)
(* "" is <<>>.  Captured bytes are a record [valid, text]: decode("utf-8") *)
(* returns text when valid and raises UnicodeDecodeError otherwise.        *)
(* Every job operation is an operator from the job (and the outside world: *)
(* OS processes, the scheduler's queue) to a record                        *)
(*   [job, env, exc, trail]                                                *)
(* where exc is the exception that propagates ("none" when the call        *)
(* returns) and trail lists, in order, the values the call assigned to     *)
(* self.status.                                                            *)
(***************************************************************************)
EXTENDS Integers, Sequences, FiniteSets, TLC

VARIABLES
    jobs,                \* the objects constructed so far; an object is its index
    env,                 \* outside world: [procs, squeue, next_id]
    todo_list,           \* JobManager.todo_list   (sequence of objects)
    active_list,         \* JobManager.active_list
    done_list,           \* JobManager.done_list
    max_concurrent_jobs, \* JobManager.max_concurrent_jobs
    pc,                  \* position of the caller inside run_once()
    call,                \* history: the last direct call on an object
    mgr,                 \* history: the last manager operation and its exception
    submitted,           \* history: [obj, active] per submit() the manager made, in order;
                         \* active is len(active_list) at that moment
    admitted             \* history: objects appended to active_list, in order

vars == <<jobs, env, todo_list, active_list, done_list, max_concurrent_jobs,
          pc, call, mgr, submitted, admitted>>

\* ---------------------------------------------------------------- bounds
MaxJobs == 3        \* add_job() calls in one manager's lifetime
MaxConcurrent == 2  \* largest max_concurrent_jobs tried
MaxChain == 2       \* longest SequentialJob command source
MaxExec == 2        \* executions a directly driven job may start
LiveJobs == 1       \* add_job() calls in the runs checked for termination
MaxOptions == 2     \* most options a SlurmConfig holds

\* ---------------------------------------------------------------- values
INIT == "init"
RUNNING == "running"
DONE == "done"
Status == {INIT, RUNNING, DONE}

None == 0                       \* Python None where an int or handle is expected
NoJob == [kind |-> "None"]      \* Python None where a Job is expected
NoConfig == [kind |-> "None"]   \* slurm_config=None

EmptyText == <<>>
Valid(text) == [valid |-> TRUE, text |-> text]
Garbage == [valid |-> FALSE, text |-> <<"\\xff">>]

\* Shell commands, by what running them produces.
CmdOk == [name |-> "echo a", out |-> Valid(<<"a">>), err |-> Valid(EmptyText), rc |-> 0]
CmdFail == [name |-> "exit 1", out |-> Valid(EmptyText), err |-> Valid(<<"failed">>), rc |-> 1]
CmdBin == [name |-> "printf \\xff", out |-> Garbage, err |-> Valid(EmptyText), rc |-> 0]
CmdBinErr == [name |-> "printf \\xff >&2", out |-> Valid(<<"b">>), err |-> Garbage, rc |-> 1]
Commands == {CmdOk, CmdFail, CmdBin, CmdBinErr}

\* Option values: an int, a str, or Python None where an option value is expected.
IntValue(n) == [py |-> "int", n |-> n]
StrValue(text) == [py |-> "str", text |-> text]
NoValue == [py |-> "NoneType"]

\* An option name is the sequence of its pieces: words, "_" and " ".
\* kwargs is the dict in insertion order: a sequence of [key, value].
SomeConfig ==
    [kind |-> "SlurmConfig",
     kwargs |-> <<[key |-> <<"job", "_", "name">>, value |-> StrValue("task")]>>]

RECURSIVE SeqsUpTo(_, _)
SeqsUpTo(S, n) ==
    IF n = 0 THEN {<<>>}
    ELSE LET shorter == SeqsUpTo(S, n - 1)
         IN shorter \cup {Append(s, c) : s \in shorter, c \in S}

\* ---------------------------------------------------------------- text
Marker == <<"Submitted", "batch", "job">>

\* `needle in text`, token by token
Contains(text, needle) ==
    \E i \in 1..(Len(text) - Len(needle) + 1) :
        SubSeq(text, i, i + Len(needle) - 1) = needle

\* text.split(" "): "" splits into [""]
Split(text) == IF text = EmptyText THEN <<"">> ELSE text

MaxSlurmId == MaxJobs * (MaxChain + 1) + MaxExec + 1
\* int(token): surrounding whitespace is stripped
IsInt(tok) == \E n \in 0..MaxSlurmId : tok \in {ToString(n), ToString(n) \o "\n"}
IntOf(tok) == CHOOSE n \in 0..MaxSlurmId : tok \in {ToString(n), ToString(n) \o "\n"}

decodable(b) == b.valid
decode(b) == b.text

\* ---------------------------------------------------------------- world
\* What the synchronous `sbatch` call may answer.
SbatchAnswers == {"queued", "rejected", "garbled"}

\* The result of subprocess.run(<sbatch command>) and the world afterwards.
sbatch(w, answer) ==
    CASE answer = "queued" ->
            [stdout |-> Valid(Marker \o <<ToString(w.next_id) \o "\n">>),
             stderr |-> Valid(EmptyText),
             env |-> [w EXCEPT !.squeue = @ \cup {w.next_id}, !.next_id = @ + 1]]
      [] answer = "rejected" ->
            [stdout |-> Valid(EmptyText),
             stderr |-> Valid(<<"sbatch:", "error">>),
             env |-> w]
      [] OTHER ->
            [stdout |-> Garbage, stderr |-> Valid(EmptyText), env |-> w]

\* subprocess.Popen: a new process, running
Popen(w) == [w EXCEPT !.procs = Append(@, "running")]

\* process.poll() is not None
exited(w, p) == w.procs[p] = "exited"

\* the ids `squeue --me -o %i --noheader` lists
active_jobs(w) == w.squeue

\* ---------------------------------------------------------------- Job
\* Job.__init__ (a command that is already one string)
Job(command, job_id) ==
    [command |-> command, job_id |-> job_id, status |-> INIT,
     stdout |-> EmptyText, stderr |-> EmptyText]

Ret(j, w, exc, trail) == [job |-> j, env |-> w, exc |-> exc, trail |-> trail]

\* ------------------------------------------------------- ForegroundJob
ForegroundJob(command, job_id) ==
    [kind |-> "ForegroundJob"] @@ Job(command, job_id)

\* ForegroundJob.submit, given what subprocess.run returned
ForegroundJob_run(j, w, result) ==
    IF ~decodable(result.stdout)
    THEN Ret([j EXCEPT !.status = RUNNING], w, "UnicodeDecodeError", <<RUNNING>>)
    ELSE IF ~decodable(result.stderr)
    THEN Ret([j EXCEPT !.status = RUNNING, !.stdout = decode(result.stdout)],
             w, "UnicodeDecodeError", <<RUNNING>>)
    ELSE Ret([j EXCEPT !.status = DONE,
                       !.stdout = decode(result.stdout),
                       !.stderr = decode(result.stderr)],
             w, "none", <<RUNNING, DONE>>)

ForegroundJob_submit(j, w) ==
    ForegroundJob_run(j, w, [stdout |-> j.command.out, stderr |-> j.command.err])

ForegroundJob_update_status(j, w) == Ret(j, w, "none", <<>>)

\* ------------------------------------------------------- BackgroundJob
BackgroundJob(command, job_id) ==
    [kind |-> "BackgroundJob", process |-> None] @@ Job(command, job_id)

BackgroundJob_submit(j, w) ==
    LET w1 == Popen(w)
    IN Ret([j EXCEPT !.process = Len(w1.procs), !.status = RUNNING],
           w1, "none", <<RUNNING>>)

BackgroundJob_update_status(j, w) ==
    IF j.process # None /\ exited(w, j.process)
    THEN LET out == j.command.out
             err == j.command.err
         IN IF decodable(out) /\ decodable(err)
            THEN Ret([j EXCEPT !.status = DONE,
                               !.stdout = decode(out),
                               !.stderr = decode(err)],
                     w, "none", <<DONE>>)
            ELSE Ret([j EXCEPT !.status = DONE], w, "none", <<DONE>>)
    ELSE Ret(j, w, "none", <<>>)

\* ------------------------------------------------------------ SlurmJob
\* str.strip() on the pieces of a key
RECURSIVE lstrip(_)
lstrip(k) == IF k # <<>> /\ Head(k) = " " THEN lstrip(Tail(k)) ELSE k
RECURSIVE rstrip(_)
rstrip(k) ==
    IF k # <<>> /\ k[Len(k)] = " " THEN rstrip(SubSeq(k, 1, Len(k) - 1)) ELSE k
\* str.replace("_", "-"), the pieces joined into one text
RECURSIVE replace(_)
replace(k) ==
    IF k = <<>> THEN ""
    ELSE (IF Head(k) = "_" THEN "-" ELSE Head(k)) \o replace(Tail(k))

format_key(k) == replace(rstrip(lstrip(k)))

\* {v} in an f-string
str(v) ==
    CASE v.py = "int" -> ToString(v.n)
      [] v.py = "str" -> v.text
      [] OTHER -> "None"

\* --{format_key(k)}={v}
option(kv) == "--" \o format_key(kv.key) \o "=" \o str(kv.value)

\* the lines of sbatch_script
sbatch_script(cfg, core_cmd) ==
    <<"#!/bin/bash">>
    \o [i \in 1..Len(cfg.kwargs) |-> "#SBATCH " \o option(cfg.kwargs[i])]
    \o <<"", core_cmd.name>>

\* SlurmConfig.command(core_cmd, sbatch=batch, fpath) for a core_cmd that is one
\* string: cmd is the returned text (its lines for sbatch, its space-separated
\* words for srun), file is what was written to fpath
SlurmConfig_command(cfg, core_cmd, batch, fpath) ==
    IF batch
    THEN IF fpath = NoValue
         THEN [cmd |-> <<"sbatch << EOF">> \o sbatch_script(cfg, core_cmd) \o <<"EOF">>,
               file |-> NoValue]
         ELSE [cmd |-> <<"sbatch " \o fpath.text>>,
               file |-> [py |-> "file", lines |-> sbatch_script(cfg, core_cmd)]]
    ELSE [cmd |-> <<"srun">>
                  \o [i \in 1..Len(cfg.kwargs) |-> option(cfg.kwargs[i])]
                  \o <<core_cmd.name>>,
          file |-> NoValue]

SlurmJob(command, job_id, slurm_config) ==
    [kind |-> "SlurmJob", slurm_config |-> slurm_config, slurm_job_id |-> None]
    @@ [Job(command, job_id) EXCEPT
            !.command = SlurmConfig_command(slurm_config, command, TRUE, NoValue).cmd]

\* the marker test of SlurmJob.submit
HasMarker(stdout) == Contains(stdout, Marker)

\* SlurmJob.submit after `self.status = Status.RUNNING`: the assert and the parse
SlurmJob_parse(r) ==
    IF ~HasMarker(r.job.stdout) THEN [r EXCEPT !.exc = "AssertionError"]
    ELSE IF Len(Split(r.job.stdout)) < 4 THEN [r EXCEPT !.exc = "IndexError"]
    ELSE IF ~IsInt(Split(r.job.stdout)[4]) THEN [r EXCEPT !.exc = "ValueError"]
    ELSE [r EXCEPT !.job.slurm_job_id = IntOf(Split(r.job.stdout)[4])]

\* SlurmJob.submit after super().submit() has ended as fg
SlurmJob_resume(fg) ==
    IF fg.exc # "none" THEN fg
    ELSE SlurmJob_parse(Ret([fg.job EXCEPT !.status = RUNNING], fg.env, "none",
                            fg.trail \o <<RUNNING>>))

SlurmJob_submit(j, w, answer) ==
    SlurmJob_resume(ForegroundJob_run(j, sbatch(w, answer).env, sbatch(w, answer)))

\* update_status with the membership test the wrong way round
SlurmJob_update_status_while_listed(j, w) ==
    IF j.slurm_job_id # None /\ j.slurm_job_id \in active_jobs(w)
    THEN Ret([j EXCEPT !.status = DONE], w, "none", <<DONE>>)
    ELSE Ret(j, w, "none", <<>>)

SlurmJob_update_status(j, w) ==
    IF j.slurm_job_id # None /\ j.slurm_job_id \notin active_jobs(w)
    THEN Ret([j EXCEPT !.status = DONE], w, "none", <<DONE>>)
    ELSE Ret(j, w, "none", <<>>)

\* -------------------------------------------------------- SequentialJob
\* command is the generator: the commands it has yet to yield; yielded is
\* history, the commands next() has returned so far
SequentialJob(command, job_id, slurm_config) ==
    [kind |-> "SequentialJob", slurm_config |-> slurm_config,
     job_cls |-> IF slurm_config # NoConfig THEN "SlurmJob" ELSE "BackgroundJob",
     curr_job |-> NoJob, yielded |-> <<>>]
    @@ [Job(command, job_id) EXCEPT !.stdout = <<>>, !.stderr = <<>>]

\* the job get_next_job() builds from the command next() yields
get_next_job(j) ==
    IF j.job_cls = "SlurmJob"
    THEN SlurmJob(Head(j.command), j.job_id, j.slurm_config)
    ELSE BackgroundJob(Head(j.command), j.job_id)

\* submit() of the classes a sub-job or a managed job can have
SubSubmit(j, w, answer) ==
    CASE j.kind = "ForegroundJob" -> ForegroundJob_submit(j, w)
      [] j.kind = "BackgroundJob" -> BackgroundJob_submit(j, w)
      [] j.kind = "SlurmJob" -> SlurmJob_submit(j, w, answer)

SubUpdate(j, w) ==
    CASE j.kind = "ForegroundJob" -> ForegroundJob_update_status(j, w)
      [] j.kind = "BackgroundJob" -> BackgroundJob_update_status(j, w)
      [] j.kind = "SlurmJob" -> SlurmJob_update_status(j, w)

\* SequentialJob.submit once get_next_job() is curr_job and its submit() ended as sub
SequentialJob_submitted(j, sub) ==
    IF sub.exc # "none"
    THEN Ret([j EXCEPT !.command = Tail(@), !.curr_job = sub.job,
                       !.yielded = Append(@, Head(j.command))],
             sub.env, sub.exc, <<>>)
    ELSE Ret([j EXCEPT !.command = Tail(@), !.curr_job = sub.job,
                       !.yielded = Append(@, Head(j.command)),
                       !.status = RUNNING],
             sub.env, "none", <<RUNNING>>)

SequentialJob_submit(j, w, answer) ==
    IF j.command = <<>> THEN Ret(j, w, "StopIteration", <<>>)
    ELSE SequentialJob_submitted(j, SubSubmit(get_next_job(j), w, answer))

\* the try block of SequentialJob.update_status, sub being the outcome of
\* the next job's submit()
SequentialJob_advanced(j, sub) ==
    Ret([j EXCEPT !.command = Tail(@), !.curr_job = sub.job,
                  !.yielded = Append(@, Head(j.command))],
        sub.env, sub.exc, <<>>)

\* update_status that submits the next sub-command without waiting for the current one
SequentialJob_polled_eager(j, cur, w, answer) ==
    IF j.command = <<>>
    THEN IF cur.status # DONE THEN Ret([j EXCEPT !.curr_job = cur], w, "none", <<>>)
         ELSE Ret([j EXCEPT !.curr_job = cur,
                            !.stdout = Append(@, cur.stdout),
                            !.stderr = Append(@, cur.stderr),
                            !.status = DONE],
                  w, "none", <<DONE>>)
    ELSE IF cur.status # DONE
    THEN SequentialJob_advanced([j EXCEPT !.curr_job = cur],
                                SubSubmit(get_next_job(j), w, answer))
    ELSE SequentialJob_advanced([j EXCEPT !.curr_job = cur,
                                          !.stdout = Append(@, cur.stdout),
                                          !.stderr = Append(@, cur.stderr)],
                                SubSubmit(get_next_job(j), w, answer))

\* update_status that ends the chain when a sub-command exits nonzero
SequentialJob_polled_stops_on_failure(j, cur, w, answer) ==
    IF cur.status # DONE THEN Ret([j EXCEPT !.curr_job = cur], w, "none", <<>>)
    ELSE IF j.command = <<>> \/ (cur.kind = "BackgroundJob" /\ cur.command.rc # 0)
    THEN Ret([j EXCEPT !.curr_job = cur,
                       !.stdout = Append(@, cur.stdout),
                       !.stderr = Append(@, cur.stderr),
                       !.status = DONE],
             w, "none", <<DONE>>)
    ELSE SequentialJob_advanced([j EXCEPT !.curr_job = cur,
                                          !.stdout = Append(@, cur.stdout),
                                          !.stderr = Append(@, cur.stderr)],
                                SubSubmit(get_next_job(j), w, answer))

\* SequentialJob.update_status once curr_job.update_status() has left curr_job as cur
SequentialJob_polled(j, cur, w, answer) ==
    IF cur.status # DONE THEN Ret([j EXCEPT !.curr_job = cur], w, "none", <<>>)
    ELSE IF j.command = <<>>
    THEN Ret([j EXCEPT !.curr_job = cur,
                       !.stdout = Append(@, cur.stdout),
                       !.stderr = Append(@, cur.stderr),
                       !.status = DONE],
             w, "none", <<DONE>>)
    ELSE SequentialJob_advanced([j EXCEPT !.curr_job = cur,
                                          !.stdout = Append(@, cur.stdout),
                                          !.stderr = Append(@, cur.stderr)],
                                SubSubmit(get_next_job(j), w, answer))

SequentialJob_update_status(j, w, answer) ==
    IF j.curr_job = NoJob THEN Ret(j, w, "AttributeError", <<>>)
    ELSE SequentialJob_polled(j, SubUpdate(j.curr_job, w).job, w, answer)

\* --------------------------------------------------- dynamic dispatch
submit(j, w, answer) ==
    IF j.kind = "SequentialJob" THEN SequentialJob_submit(j, w, answer)
    ELSE SubSubmit(j, w, answer)

update_status(j, w, answer) ==
    IF j.kind = "SequentialJob" THEN SequentialJob_update_status(j, w, answer)
    ELSE SubUpdate(j, w)

\* ---------------------------------------------------------- JobManager
JOB_CLASSES ==
    [bash |-> "BackgroundJob", slurm |-> "SlurmJob", sequential |-> "SequentialJob"]

\* JOB_CLASSES[mode](command, job_id, slurm_config=slurm_config)
NewJob(mode, command, job_id, slurm_config) ==
    CASE JOB_CLASSES[mode] = "BackgroundJob" -> BackgroundJob(command, job_id)
      [] JOB_CLASSES[mode] = "SlurmJob" -> SlurmJob(command, job_id, slurm_config)
      [] JOB_CLASSES[mode] = "SequentialJob" ->
            SequentialJob(command, job_id, slurm_config)

\* the exception the constructor call of add_job raises, if any
NewJobError(mode, slurm_config) ==
    IF mode \notin DOMAIN JOB_CLASSES THEN "KeyError"
    ELSE IF JOB_CLASSES[mode] = "SlurmJob" /\ slurm_config = NoConfig
    THEN "AttributeError"
    ELSE "none"

\* the manager's state as the loops of assign_jobs / update_jobs see it
Manager ==
    [jobs |-> jobs, env |-> env, todo |-> todo_list, active |-> active_list,
     done |-> done_list, submitted |-> submitted, admitted |-> admitted,
     exc |-> "none"]

\* the loop condition with <= for <: one job too many is let in
CanAssign_at_cap(m) == Len(m.todo) > 0 /\ Len(m.active) <= max_concurrent_jobs

\* the loop condition of assign_jobs
CanAssign(m) == Len(m.todo) > 0 /\ Len(m.active) < max_concurrent_jobs

\* assign_jobs(); answers[o] is what sbatch answers when object o submits
RECURSIVE assign_jobs(_, _)
\* one turn of the loop: o is popped, its submit() ended as res
assign_job(m, o, res, answers) ==
    IF res.exc # "none"
    THEN [m EXCEPT !.todo = Tail(@),
                   !.jobs[o] = res.job,
                   !.env = res.env,
                   !.submitted = Append(@, [obj |-> o, active |-> Len(m.active)]),
                   !.exc = res.exc]
    ELSE assign_jobs([m EXCEPT !.todo = Tail(@),
                               !.jobs[o] = res.job,
                               !.env = res.env,
                               !.submitted = Append(@, [obj |-> o, active |-> Len(m.active)]),
                               !.active = Append(@, o),
                               !.admitted = Append(@, o)], answers)

assign_jobs(m, answers) ==
    IF ~CanAssign(m) THEN m
    ELSE assign_job(m, Head(m.todo),
                    submit(m.jobs[Head(m.todo)], m.env, answers[Head(m.todo)]),
                    answers)

\* the first loop of update_jobs from position i on; found is the local done_list
RECURSIVE poll_jobs(_, _, _, _)
\* one turn of the first loop: the update_status() of o = active_list[i] ended as res
poll_job(m, i, found, answers, o, res) ==
    IF res.exc # "none"
    THEN [m |-> [m EXCEPT !.jobs[o] = res.job, !.env = res.env, !.exc = res.exc],
          found |-> found]
    ELSE poll_jobs([m EXCEPT !.jobs[o] = res.job, !.env = res.env], i + 1,
                   IF res.job.status = DONE THEN Append(found, o) ELSE found,
                   answers)

poll_jobs(m, i, found, answers) ==
    IF i > Len(m.active) THEN [m |-> m, found |-> found]
    ELSE poll_job(m, i, found, answers, m.active[i],
                  update_status(m.jobs[m.active[i]], m.env, answers[m.active[i]]))

InSeq(x, s) == \E i \in 1..Len(s) : s[i] = x
\* list.remove(x): the first occurrence of x goes
Remove(s, x) ==
    LET i == CHOOSE k \in 1..Len(s) : s[k] = x /\ \A h \in 1..(k - 1) : s[h] # x
    IN SubSeq(s, 1, i - 1) \o SubSeq(s, i + 1, Len(s))
\* s after s.remove(x) for every x of found, in order
RECURSIVE RemoveAll(_, _)
RemoveAll(s, found) ==
    IF found = <<>> THEN s ELSE RemoveAll(Remove(s, Head(found)), Tail(found))

\* update_jobs that puts the jobs it found Done in front of done_list
reap_jobs_prepends(polled) ==
    IF polled.m.exc # "none" THEN polled.m
    ELSE [polled.m EXCEPT !.active = RemoveAll(@, polled.found),
                          !.done = polled.found \o @]

\* the second loop of update_jobs, after the first ended as polled
reap_jobs(polled) ==
    IF polled.m.exc # "none" THEN polled.m
    ELSE [polled.m EXCEPT !.active = RemoveAll(@, polled.found),
                          !.done = @ \o polled.found]

update_jobs(m, answers) == reap_jobs(poll_jobs(m, 1, <<>>, answers))

\* the loop condition of run_once
Busy == Len(todo_list) > 0 \/ Len(active_list) > 0

\* ------------------------------------------------------------- inputs
Modes == {"bash", "slurm", "sequential", "foreground"}
Configs == {NoConfig, SomeConfig}
\* commands add_job() is given, per mode
AddCommands(mode) ==
    IF mode = "sequential" THEN SeqsUpTo({CmdFail}, MaxChain)
    ELSE IF mode = "slurm" THEN {CmdOk}
    ELSE {CmdOk, CmdFail}
\* object o runs sbatch when the manager next submits or polls it: a pending
\* SlurmJob, or a SequentialJob of SlurmJobs that has a command left
UsesSbatch(o) ==
    \/ jobs[o].kind = "SlurmJob" /\ InSeq(o, todo_list)
    \/ /\ jobs[o].kind = "SequentialJob"
       /\ jobs[o].job_cls = "SlurmJob"
       /\ jobs[o].command # <<>>
       /\ InSeq(o, todo_list) \/ InSeq(o, active_list)
\* one sbatch answer for every object that may ask for one
Answers ==
    {a \in [1..Len(jobs) -> SbatchAnswers] :
        \A o \in 1..Len(jobs) : ~UsesSbatch(o) => a[o] = "queued"}

\* ------------------------------------------------------------- states
NoCall == [op |-> "none"]

Init ==
    /\ jobs = <<>>
    /\ env = [procs |-> <<>>, squeue |-> {}, next_id |-> 1]
    /\ todo_list = <<>>
    /\ active_list = <<>>
    /\ done_list = <<>>
    /\ max_concurrent_jobs \in 0..MaxConcurrent
    /\ pc = "idle"
    /\ call = NoCall
    /\ mgr = [op |-> "__init__", exc |-> "none"]
    /\ submitted = <<>>
    /\ admitted = <<>>

\* what an operation of the manager leaves behind
Leave(m, op) ==
    /\ jobs' = m.jobs
    /\ env' = m.env
    /\ todo_list' = m.todo
    /\ active_list' = m.active
    /\ done_list' = m.done
    /\ submitted' = m.submitted
    /\ admitted' = m.admitted
    /\ mgr' = [op |-> op, exc |-> m.exc]
    /\ UNCHANGED <<max_concurrent_jobs, call>>

\* what a step of run_once leaves behind: on an exception the call is over
RunOnceStep(m, op, next) ==
    /\ Leave(m, IF m.exc = "none" THEN op ELSE "run_once")
    /\ pc' = IF m.exc = "none" THEN next ELSE "idle"

\* add_job that, when the constructor raises, still enqueues a default bash job
AddJob_enqueues_on_error ==
    /\ pc = "idle"
    /\ Len(jobs) < MaxJobs
    /\ \E mode \in Modes, slurm_config \in Configs :
         LET err == NewJobError(mode, slurm_config)
         IN IF err # "none"
            THEN Leave([Manager EXCEPT
                            !.exc = err,
                            !.jobs = Append(@, BackgroundJob(CmdOk, Len(todo_list))),
                            !.todo = Append(@, Len(jobs) + 1)],
                       "add_job")
            ELSE \E command \in AddCommands(mode) :
                   LET job == NewJob(mode, command, Len(todo_list), slurm_config)
                   IN Leave([Manager EXCEPT !.jobs = Append(@, job),
                                            !.todo = Append(@, Len(jobs) + 1)],
                            "add_job")
    /\ UNCHANGED pc

\* JobManager.add_job
AddJob ==
    /\ pc = "idle"
    /\ Len(jobs) < MaxJobs
    /\ \E mode \in Modes, slurm_config \in Configs :
         LET err == NewJobError(mode, slurm_config)
         IN IF err # "none"
            THEN Leave([Manager EXCEPT !.exc = err], "add_job")
            ELSE \E command \in AddCommands(mode) :
                   LET job == NewJob(mode, command, Len(todo_list), slurm_config)
                   IN Leave([Manager EXCEPT !.jobs = Append(@, job),
                                            !.todo = Append(@, Len(jobs) + 1)],
                            "add_job")
    /\ UNCHANGED pc

\* JobManager.assign_jobs called by the user
AssignJobs ==
    /\ pc = "idle"
    /\ \E answers \in Answers : Leave(assign_jobs(Manager, answers), "assign_jobs")
    /\ UNCHANGED pc

\* JobManager.update_jobs called by the user
UpdateJobs ==
    /\ pc = "idle"
    /\ \E answers \in Answers : Leave(update_jobs(Manager, answers), "update_jobs")
    /\ UNCHANGED pc

\* JobManager.run_once: the call
RunOnceCall ==
    /\ pc = "idle"
    /\ pc' = "while"
    /\ mgr' = [op |-> "run_once:call", exc |-> "none"]
    /\ UNCHANGED <<jobs, env, todo_list, active_list, done_list,
                   max_concurrent_jobs, call, submitted, admitted>>

\* run_once: the loop test holds, assign_jobs(), then time.sleep begins
RunOnceAssign ==
    /\ pc = "while"
    /\ Busy
    /\ \E answers \in Answers :
         RunOnceStep(assign_jobs(Manager, answers), "run_once:assign", "sleep")

\* run_once: time.sleep is over, update_jobs(), back to the loop test
RunOnceUpdate ==
    /\ pc = "sleep"
    /\ \E answers \in Answers :
         RunOnceStep(update_jobs(Manager, answers), "run_once:update", "while")

\* run_once: the loop test fails and the call returns
RunOnceReturn ==
    /\ pc = "while"
    /\ ~Busy
    /\ pc' = "idle"
    /\ mgr' = [op |-> "run_once", exc |-> "none"]
    /\ UNCHANGED <<jobs, env, todo_list, active_list, done_list,
                   max_concurrent_jobs, call, submitted, admitted>>

\* a background process exits
ProcessExit ==
    /\ \E p \in 1..Len(env.procs) :
         /\ env.procs[p] = "running"
         /\ env' = [env EXCEPT !.procs[p] = "exited"]
    /\ UNCHANGED <<jobs, todo_list, active_list, done_list, max_concurrent_jobs,
                   pc, call, mgr, submitted, admitted>>

\* a batch job leaves the scheduler's queue (finished, failed or cancelled)
SchedulerFinish ==
    /\ \E n \in env.squeue : env' = [env EXCEPT !.squeue = @ \ {n}]
    /\ UNCHANGED <<jobs, todo_list, active_list, done_list, max_concurrent_jobs,
                   pc, call, mgr, submitted, admitted>>

Next ==
    \/ AddJob
    \/ AssignJobs
    \/ UpdateJobs
    \/ RunOnceCall
    \/ RunOnceAssign
    \/ RunOnceUpdate
    \/ RunOnceReturn
    \/ ProcessExit
    \/ SchedulerFinish

Spec == Init /\ [][Next]_vars

\* The polling thread keeps running and every started execution ends: a process
\* exits, a batch job leaves the queue.  The user's calls are under no obligation.
Fairness ==
    /\ WF_vars(RunOnceAssign)
    /\ WF_vars(RunOnceUpdate)
    /\ WF_vars(RunOnceReturn)
    /\ WF_vars(ProcessExit)
    /\ WF_vars(SchedulerFinish)

\* run_once() on a manager with max_concurrent_jobs >= 1 and at most LiveJobs jobs
LiveInit == Init /\ max_concurrent_jobs >= 1

LiveAddJob == Len(jobs) < LiveJobs /\ AddJob

LiveNext ==
    \/ LiveAddJob
    \/ RunOnceCall
    \/ RunOnceAssign
    \/ RunOnceUpdate
    \/ RunOnceReturn
    \/ ProcessExit
    \/ SchedulerFinish

LiveSpec == LiveInit /\ [][LiveNext]_vars /\ Fairness

\* ------------------------------------------- jobs driven without a manager
\* the jobs a caller can construct directly
Constructions ==
    {ForegroundJob(c, 0) : c \in Commands}
    \cup {BackgroundJob(c, 0) : c \in Commands}
    \cup {SlurmJob(CmdOk, 0, SomeConfig)}
    \cup {SequentialJob(src, 0, cfg) :
            src \in SeqsUpTo(Commands, MaxChain), cfg \in Configs}

\* a Job class is instantiated
Construct ==
    /\ jobs = <<>>
    /\ \E j \in Constructions : jobs' = <<j>>
    /\ UNCHANGED <<env, todo_list, active_list, done_list, max_concurrent_jobs,
                   pc, call, mgr, submitted, admitted>>

Unmanaged(o) == ~InSeq(o, todo_list \o active_list \o done_list)

\* what a direct call op on object o leaves behind, res being its outcome
Called(op, o, answer, res) ==
    /\ jobs' = [jobs EXCEPT ![o] = res.job]
    /\ env' = res.env
    /\ call' = [op |-> op, obj |-> o, before |-> jobs[o], answer |-> answer,
                world |-> env, exc |-> res.exc, trail |-> res.trail,
                started |-> res.env # env]
    /\ UNCHANGED <<todo_list, active_list, done_list, max_concurrent_jobs,
                   pc, mgr, submitted, admitted>>

\* job.submit() called by the user, in any status
Submit ==
    \E o \in 1..Len(jobs), answer \in SbatchAnswers :
        /\ Unmanaged(o)
        /\ Len(env.procs) < MaxExec
        /\ env.next_id <= MaxExec
        /\ Called("submit", o, answer, submit(jobs[o], env, answer))

\* job.update_status() called by the user, in any status
UpdateStatus ==
    \E o \in 1..Len(jobs), answer \in SbatchAnswers :
        /\ Unmanaged(o)
        /\ jobs[o].kind = "SequentialJob" => Len(jobs[o].stdout) <= MaxChain
        /\ Called("update_status", o, answer, update_status(jobs[o], env, answer))

JobNext ==
    \/ Construct
    \/ Submit
    \/ UpdateStatus
    \/ ProcessExit
    \/ SchedulerFinish

JobSpec == Init /\ [][JobNext]_vars

\* ----------------------------------------------- a SlurmConfig on its own
Keys == {<<"cpus", "_", "per", "_", "task">>, <<"job", "_", "name">>, <<"mem">>}
Values == {IntValue(4), StrValue("8G"), NoValue}

\* dict.update(key=value): an existing key keeps its place
dict_update(d, key, value) ==
    IF \E i \in 1..Len(d) : d[i].key = key
    THEN [i \in 1..Len(d) |-> IF d[i].key = key THEN [d[i] EXCEPT !.value = value]
                                                ELSE d[i]]
    ELSE Append(d, [key |-> key, value |-> value])

\* SlurmConfig(**kwargs) with at most one option
NewConfig ==
    /\ jobs = <<>>
    /\ \E kwargs \in {<<>>} \cup {<<[key |-> k, value |-> v]>> : k \in Keys, v \in Values} :
         jobs' = <<[kind |-> "SlurmConfig", kwargs |-> kwargs]>>
    /\ UNCHANGED <<env, todo_list, active_list, done_list, max_concurrent_jobs,
                   pc, call, mgr, submitted, admitted>>

\* SlurmConfig.update(key=value)
ConfigUpdate ==
    /\ \E o \in 1..Len(jobs), key \in Keys, value \in Values :
         /\ jobs[o].kind = "SlurmConfig"
         /\ Len(dict_update(jobs[o].kwargs, key, value)) <= MaxOptions
         /\ jobs' = [jobs EXCEPT ![o].kwargs = dict_update(@, key, value)]
         /\ call' = [op |-> "update", obj |-> o]
    /\ UNCHANGED <<env, todo_list, active_list, done_list, max_concurrent_jobs,
                   pc, mgr, submitted, admitted>>

\* SlurmConfig.command(core_cmd, sbatch=..., fpath=...)
ConfigCommand ==
    /\ \E o \in 1..Len(jobs), core_cmd \in {CmdOk, CmdFail}, batch \in BOOLEAN,
          fpath \in {NoValue, StrValue("tmp.slurm")} :
         /\ jobs[o].kind = "SlurmConfig"
         /\ call' = [op |-> "command", obj |-> o, core_cmd |-> core_cmd,
                     sbatch |-> batch, fpath |-> fpath,
                     result |-> SlurmConfig_command(jobs[o], core_cmd, batch, fpath)]
    /\ UNCHANGED <<jobs, env, todo_list, active_list, done_list, max_concurrent_jobs,
                   pc, mgr, submitted, admitted>>

ConfigNext ==
    \/ NewConfig
    \/ ConfigUpdate
    \/ ConfigCommand

ConfigSpec == Init /\ [][ConfigNext]_vars

\* ================================================================ claims
Objects == 1..Len(jobs)
Occurrences(o, s) == Cardinality({i \in 1..Len(s) : s[i] = o})
Position(o, s) == CHOOSE i \in 1..Len(s) : s[i] = o
SubmittedObjects == [i \in 1..Len(submitted) |-> submitted[i].obj]
Returned(op) == mgr = [op |-> op, exc |-> "none"]

\* C1: within and across calls of submit() and update_status(), a job's status
\* only moves Init -> Running or Running -> Done: every value a call assigns to
\* status is the previous value or its successor.
LegalStep(a, b) == a = b \/ <<a, b>> \in {<<INIT, RUNNING>>, <<RUNNING, DONE>>}
StatusPath == <<call.before.status>> \o call.trail
C1_StatusOnlyAdvances ==
    call.op # "none" =>
        \A i \in 1..(Len(StatusPath) - 1) : LegalStep(StatusPath[i], StatusPath[i + 1])

\* C2: assign_jobs() never submits a job while len(active_list) equals
\* max_concurrent_jobs, and len(active_list) <= max_concurrent_jobs in every state.
C2_ActiveWithinCap ==
    /\ Len(active_list) <= max_concurrent_jobs
    /\ \A i \in 1..Len(submitted) : submitted[i].active < max_concurrent_jobs
\* assign_jobs() has stopped at the cap with a job still pending
C2_Witness ==
    /\ mgr.op \in {"assign_jobs", "run_once:assign"}
    /\ mgr.exc = "none"
    /\ Len(todo_list) > 0
    /\ max_concurrent_jobs >= 1
    /\ Len(active_list) = max_concurrent_jobs

\* C3: every job added with add_job() is in exactly one of todo_list,
\* active_list, done_list after every manager operation, also when submit() raised.
C3_ExactlyOneList ==
    \A o \in Objects :
        Occurrences(o, todo_list) + Occurrences(o, active_list)
            + Occurrences(o, done_list) = 1

\* C4: admission is FIFO: of two jobs added in the order A, B, the manager calls
\* A.submit() and appends A to active_list no later than it does so for B.
C4_FifoAdmission ==
    \A a, b \in Objects :
        a < b =>
            /\ InSeq(b, SubmittedObjects) =>
                 /\ InSeq(a, SubmittedObjects)
                 /\ Position(a, SubmittedObjects) < Position(b, SubmittedObjects)
            /\ InSeq(b, admitted) =>
                 /\ InSeq(a, admitted)
                 /\ Position(a, admitted) < Position(b, admitted)

\* C5: with max_concurrent_jobs >= 1, finite command sources and every started
\* execution ending, a run_once() that was called comes to an end.
C5_RunOnceTerminates == (pc # "idle") ~> (pc = "idle")

\* C6: when run_once() returns, todo_list and active_list are empty and done_list
\* holds every job that was added, each once.
C6_RunOnceDrains ==
    (Returned("run_once") /\ max_concurrent_jobs >= 1) =>
        /\ todo_list = <<>>
        /\ active_list = <<>>
        /\ \A o \in Objects : Occurrences(o, done_list) = 1

\* C7: the job ids of the jobs a manager holds are strictly increasing in the
\* order the jobs were added, hence unique.
C7_UniqueJobIds ==
    \A a, b \in Objects : a < b => jobs[a].job_id < jobs[b].job_id

\* C8: update_status() on a job that is Done changes nothing of the job.
C8_PollDoneIsNoOp ==
    (call.op = "update_status" /\ call.before.status = DONE) =>
        jobs[call.obj] = call.before

\* C9: submit() on a job that is not Init raises, starts no execution and leaves
\* the status as it was.
C9_ResubmitRaises ==
    (call.op = "submit" /\ call.before.status # INIT) =>
        /\ call.exc # "none"
        /\ ~call.started
        /\ jobs[call.obj].status = call.before.status

\* C10: when sbatch's output lacks "Submitted batch job", SlurmJob.submit() raises,
\* the status was never set to Running or Done during the call and is Init after it.
C10_RejectedStaysInit ==
    (/\ call.op = "submit"
     /\ call.before.kind = "SlurmJob"
     /\ call.before.status = INIT
     /\ call.answer = "rejected") =>
        /\ call.exc # "none"
        /\ call.trail = <<>>
        /\ jobs[call.obj].status = INIT

\* C11: a job whose status is Init or Running has empty stdout and stderr (for a
\* SequentialJob: no accumulated entry); this includes a SlurmJob after submit().
C11_OutputEmptyBeforeDone ==
    \A o \in Objects :
        jobs[o].status \in {INIT, RUNNING} =>
            /\ jobs[o].stdout = EmptyText
            /\ jobs[o].stderr = EmptyText

\* C12: an add_job() with an unrecognised mode, or with mode "slurm" and no
\* slurm_config, raises inside add_job() and leaves todo_list, active_list and
\* done_list (and the set of jobs) as they were; hence no enqueued job has an
\* unrecognised class or lacks its config, and no later operation raises for it.
Enqueueable(j) ==
    /\ j.kind \in {JOB_CLASSES[m] : m \in DOMAIN JOB_CLASSES}
    /\ j.kind = "SlurmJob" => j.slurm_config # NoConfig
C12_BadModeFailsInAddJob ==
    [][/\ (mgr'.op = "add_job" /\ mgr'.exc # "none") =>
             UNCHANGED <<jobs, todo_list, active_list, done_list>>
       /\ \A o \in 1..Len(jobs') : Enqueueable(jobs'[o])
       /\ mgr'.op # "add_job" => mgr'.exc \notin {"KeyError", "AttributeError"}]_vars
\* add_job() has raised on a manager that holds pending jobs
C12_Witness ==
    /\ mgr = [op |-> "add_job", exc |-> "AttributeError"]
    /\ Len(todo_list) > 0

\* C13: when the bytes a finished ForegroundJob or BackgroundJob captured are not
\* valid UTF-8, the call that finishes the job raises nothing, the job is Done and
\* its stdout and stderr are still empty.
Undecodable(command) == ~decodable(command.out) \/ ~decodable(command.err)
FinishingCall ==
    \/ /\ call.op = "submit"
       /\ call.before.kind = "ForegroundJob"
       /\ call.before.status = INIT
    \/ /\ call.op = "update_status"
       /\ call.before.kind = "BackgroundJob"
       /\ call.before.status = RUNNING
       /\ exited(call.world, call.before.process)
C13_DecodeFailureRecovered ==
    (call.op # "none" /\ FinishingCall /\ Undecodable(call.before.command)) =>
        /\ call.exc = "none"
        /\ jobs[call.obj].status = DONE
        /\ jobs[call.obj].stdout = EmptyText
        /\ jobs[call.obj].stderr = EmptyText

\* C14: a SequentialJob that is submitted once and then polled holds, after every
\* call, one stdout and one stderr entry per completed sub-command, in sub-command
\* order; when it becomes Done the source is used up and every command it yielded
\* has its entry; a sub-command that exits nonzero is followed by the next one.
Completed(j) ==
    Len(j.yielded) - (IF j.curr_job # NoJob /\ j.curr_job.status # DONE THEN 1 ELSE 0)
EntryOf(j, i) ==
    IF j.job_cls = "SlurmJob"
    THEN HasMarker(j.stdout[i]) /\ j.stderr[i] = EmptyText
    ELSE IF Undecodable(j.yielded[i])
    THEN j.stdout[i] = EmptyText /\ j.stderr[i] = EmptyText
    ELSE /\ j.stdout[i] = decode(j.yielded[i].out)
         /\ j.stderr[i] = decode(j.yielded[i].err)
Accumulated(j) ==
    /\ Len(j.stdout) = Completed(j)
    /\ Len(j.stderr) = Completed(j)
    /\ \A i \in 1..Completed(j) : EntryOf(j, i)
ChainCall ==
    /\ call.op # "none"
    /\ call.before.kind = "SequentialJob"
    /\ \/ /\ call.op = "submit"
          /\ call.before.status = INIT
          /\ call.before.yielded = <<>>
          /\ call.before.command # <<>>
       \/ /\ call.op = "update_status"
          /\ call.before.status = RUNNING
          /\ Accumulated(call.before)
C14_ChainAccumulates ==
    ChainCall =>
        /\ Accumulated(jobs[call.obj])
        /\ jobs[call.obj].status = DONE =>
              /\ jobs[call.obj].command = <<>>
              /\ Len(jobs[call.obj].stdout) = Len(jobs[call.obj].yielded)
        /\ (/\ call.op = "update_status"
            /\ Len(jobs[call.obj].stdout) > Len(call.before.stdout)
            /\ call.before.command # <<>>) =>
              /\ jobs[call.obj].yielded =
                     Append(call.before.yielded, Head(call.before.command))
              /\ jobs[call.obj].status = RUNNING
              /\ call.started \/ call.exc # "none"
\* a chain of two is Done with two entries although its first command failed
C14_Witness ==
    /\ ChainCall
    /\ call.op = "update_status"
    /\ jobs[call.obj].status = DONE
    /\ Len(jobs[call.obj].stdout) = 2
    /\ jobs[call.obj].job_cls = "BackgroundJob"
    /\ jobs[call.obj].yielded[1].rc # 0

\* C15: when a SequentialJob's source has no command left, submit() and
\* update_status() raise nothing and the job becomes Done.
SourceExhausted ==
    /\ call.before.kind = "SequentialJob"
    /\ call.before.command = <<>>
    /\ \/ call.op = "submit" /\ call.before.status = INIT
       \/ /\ call.op = "update_status"
          /\ call.before.status = RUNNING
          /\ call.before.curr_job # NoJob
          /\ jobs[call.obj].curr_job.status = DONE
C15_ExhaustionIsDone ==
    (call.op # "none" /\ SourceExhausted) =>
        /\ call.exc = "none"
        /\ jobs[call.obj].status = DONE

\* C16: an update_jobs() that returns has polled every job of active_list once
\* (a job whose execution has ended is Done afterwards, any other is as it was; a
\* SequentialJob has gained exactly the entry of a sub-job that ended), has
\* appended the jobs that are Done to done_list in their active_list order, behind
\* what was there, and has left the others in active_list in their order.
Ended(j, w) ==
    CASE j.kind = "BackgroundJob" -> j.process # None /\ exited(w, j.process)
      [] j.kind = "SlurmJob" ->
            j.slurm_job_id # None /\ j.slurm_job_id \notin active_jobs(w)
      [] OTHER -> FALSE
PolledOnce(o) ==
    IF jobs[o].kind = "SequentialJob"
    THEN /\ Len(jobs'[o].stdout) =
              Len(jobs[o].stdout) + (IF Ended(jobs[o].curr_job, env) THEN 1 ELSE 0)
         /\ Len(jobs'[o].yielded) <= Len(jobs[o].yielded) + 1
    ELSE IF Ended(jobs[o], env) THEN jobs'[o].status = DONE
    ELSE jobs'[o] = jobs[o]
IsDoneAfter(o) == jobs'[o].status = DONE
IsNotDoneAfter(o) == jobs'[o].status # DONE
PollPass == (UpdateJobs \/ RunOnceUpdate) /\ mgr'.exc = "none"
SlurmPoll ==
    /\ call.op = "update_status"
    /\ call.before.kind = "SlurmJob"
    /\ call.before.status = RUNNING
    /\ call.before.slurm_job_id # None
C17_DoneIffNotListed ==
    SlurmPoll =>
        /\ call.exc = "none"
        /\ jobs[call.obj].status = DONE <=>
              call.before.slurm_job_id \notin active_jobs(call.world)
        /\ jobs[call.obj].status \in {RUNNING, DONE}
        /\ jobs[call.obj] = [call.before EXCEPT !.status = jobs[call.obj].status]
\* a poll has found the id gone and declared the job Done
C17_Witness ==
    /\ SlurmPoll
    /\ jobs[call.obj].status = DONE
    /\ call.before.slurm_job_id \notin active_jobs(call.world)

\* C18: command() renders every option whose value is not None as
\* --name=value with the underscores of the name as hyphens
\* (cpus_per_task=4 -> --cpus-per-task=4), in dict order, and leaves out every
\* option whose value is None, in the srun style and in the sbatch script.
FlagOf(key) ==
    CASE key = <<"cpus", "_", "per", "_", "task">> -> "--cpus-per-task"
      [] key = <<"job", "_", "name">> -> "--job-name"
      [] key = <<"mem">> -> "--mem"
TextOf(value) == IF value = IntValue(4) THEN "4" ELSE "8G"
HasValue(kv) == kv.value # NoValue
RenderedOptions(kwargs) ==
    [i \in 1..Len(SelectSeq(kwargs, HasValue)) |->
        FlagOf(SelectSeq(kwargs, HasValue)[i].key) \o "="
            \o TextOf(SelectSeq(kwargs, HasValue)[i].value)]
ScriptOf(c) ==
    IF c.fpath = NoValue
    THEN SubSeq(c.result.cmd, 2, Len(c.result.cmd) - 1)
    ELSE c.result.file.lines
C18_NoneOptionOmitted ==
    call.op = "command" =>
        IF call.sbatch
        THEN ScriptOf(call) =
                <<"#!/bin/bash">>
                \o [i \in 1..Len(RenderedOptions(jobs[call.obj].kwargs)) |->
                        "#SBATCH " \o RenderedOptions(jobs[call.obj].kwargs)[i]]
                \o <<"", call.core_cmd.name>>
        ELSE call.result.cmd =
                <<"srun">> \o RenderedOptions(jobs[call.obj].kwargs)
                           \o <<call.core_cmd.name>>

\* C19: under the manager a SequentialJob runs its sub-commands one after another:
\* a sub-command is submitted only after the one before it was seen Done (its
\* output entry exists), every yielded command started one execution and no more,
\* and the executions that are running are no more than the jobs in active_list,
\* hence no more than max_concurrent_jobs.
RunningExecutions ==
    Cardinality({p \in 1..Len(env.procs) : env.procs[p] = "running"})
        + Cardinality(env.squeue)
ProcessesOf(j) ==
    CASE j.kind = "BackgroundJob" -> IF j.process # None THEN 1 ELSE 0
      [] j.kind = "SequentialJob" /\ j.job_cls = "BackgroundJob" -> Len(j.yielded)
      [] OTHER -> 0
RECURSIVE ProcessesUpTo(_)
ProcessesUpTo(n) == IF n = 0 THEN 0 ELSE ProcessesUpTo(n - 1) + ProcessesOf(jobs[n])
C19_OneSubJobAtATime ==
    /\ RunningExecutions <= Len(active_list)
    /\ RunningExecutions <= max_concurrent_jobs
    /\ Len(env.procs) = ProcessesUpTo(Len(jobs))
    /\ \A o \in Objects :
          jobs[o].kind = "SequentialJob" =>
              Len(jobs[o].yielded) <= Len(jobs[o].stdout) + 1
\* a chain of two is at its second sub-command while the manager is at its cap
C19_Witness ==
    /\ \E o \in Objects :
          /\ jobs[o].kind = "SequentialJob"
          /\ InSeq(o, active_list)
          /\ Len(jobs[o].yielded) = 2
          /\ Len(jobs[o].stdout) = 1
          /\ jobs[o].curr_job.status = RUNNING
    /\ RunningExecutions = 2
    /\ Len(active_list) = 2
    /\ max_concurrent_jobs = 2

\* C20: after every manager operation every job in todo_list is Init, every job in
\* active_list is Running and every job in done_list is Done; a job in done_list
\* is not in active_list, where it would be polled again; the manager has called
\* submit() at most once per job.
C20_MembershipMatchesStatus ==
    /\ \A i \in 1..Len(todo_list) : jobs[todo_list[i]].status = INIT
    /\ \A i \in 1..Len(active_list) : jobs[active_list[i]].status = RUNNING
    /\ \A i \in 1..Len(done_list) :
          /\ jobs[done_list[i]].status = DONE
          /\ ~InSeq(done_list[i], active_list)
          /\ ~InSeq(done_list[i], todo_list)
    /\ \A o \in Objects : Occurrences(o, SubmittedObjects) <= 1

====
